---- MODULE Spec2Model ----
(***************************************************************************)
(* Cross-modal retrieval with a triplet network: the evaluation script     *)
(* (src/src/evaluate_text_to_image_methods.py) and the training script     *)
(* (src/src/task_Resnet_BERT_text_to_Image.py) as state machines.          *)
(*                                                                         *)
(* Python lists and numpy arrays are 0-based; an array is a record         *)
(* [rows, width, data] with data a function on 0..rows-1.  A row keeps its *)
(* declared width (1024, 4096, ...) and the coordinates 0..Dim-1 that the  *)
(* modelled encoder can make non-zero; every other coordinate is 0, so a   *)
(* squared L2 distance over the kept coordinates is the exact distance.    *)
(***************************************************************************)
EXTENDS Integers, Sequences, FiniteSets, TLC

\* ------------------------------------------------------------- bounds

\* num_samples of main (1000 in the source), scaled.
NumSamples == 6

\* Longest dataloader (in batches) and largest batch given to
\* extract_embeddings when it is checked on its own.
MaxBatches == 3

MaxBatchSize == 3

\* Largest split (in images) of the training script's datasets.
MaxTripletLen == 3

\* ---------------------------------------------------- program constants

\* np.zeros((num_samples, 1024)): the hard-coded width of both arrays.
ArrayWidth == 1024

\* out_size = 4096 of the evaluation script's method selection.
MainOutSize == 4096

\* out_size=256, the default of extract_embeddings' parameter.
DefaultOutSize == 256

\* k = 5, the number of nearest neighbours.
K == 5

\* The 5 captions per image hard-coded in extract_embeddings and text_labels.
CaptionsPerImage == 5

\* num_samples = 20 of the qualitative display.
DisplaySamples == 20

\* n_epochs = 20 and out_size = 1000 of the training script.
NEpochs == 20

TrainOutSize == 1000

TrainBatchSize == 8

\* ------------------------------------------------------------ helpers

Min(a, b) == IF a < b THEN a ELSE b

\* Python's seq[i] for a list held as a TLA+ sequence (0-based, negative
\* indices count from the end); the caller checks PyIndexOK first.
PyIndexOK(i, len) == (0 - len) <= i /\ i < len

PyAt(seq, i) == IF i >= 0 THEN seq[i + 1] ELSE seq[Len(seq) + i + 1]

\* seq[:n]
PyPrefix(seq, n) == SubSeq(seq, 1, Min(n, Len(seq)))

RECURSIVE SumSeq(_)
SumSeq(s) == IF s = <<>> THEN 0 ELSE Head(s) + SumSeq(Tail(s))

Dim == NumSamples

Dims == 0 .. (Dim - 1)

ZeroVec == [d \in Dims |-> 0]

\* np.zeros((rows, width))
Zeros(rows, width) ==
    [rows |-> rows, width |-> width, data |-> [r \in 0 .. (rows - 1) |-> ZeroVec]]

\* np.float32(x): round to a 24-bit mantissa; exact below 2^24.
Float32(x) ==
    IF x < 16777216 /\ x > (0 - 16777216) THEN x ELSE (x \div 2) * 2

Float32Array(a) ==
    [a EXCEPT !.data = [r \in DOMAIN a.data |-> [d \in Dims |-> Float32(a.data[r][d])]]]

\* ------------------------------------------------------------ state

VARIABLES
    pc,                \* position in the evaluation script
    err,               \* the exception that ended the process, or "none"
    cuda,              \* torch.cuda.is_available()
    ckpt_exists,       \* path.exists(PATH_MODEL + model_id + '.pth')
    out_size,          \* out_size of the method selection
    weights,           \* the model's parameters
    loaded,            \* model.load_state_dict has run
    loader,            \* the dataloader: the sizes of its batches, in order
    data,              \* the annotation entries, after data[:num_samples]
    image_embeddings,  \* extract_embeddings' image array
    text_embeddings,   \* extract_embeddings' text array
    k_off,             \* extract_embeddings' k
    bi,                \* batches of the dataloader consumed so far
    I,                 \* index.search's result: per query row, K row ids
    map_num,           \* mAP@k * Scale * map_den
    map_den,           \* number of (actual, predicted) pairs averaged
    random_samples,    \* the qualitative display's sampled query indices
    di,                \* display iterations done
    shown,             \* what the last display iteration showed
    tpc,               \* position in the training script
    terr,              \* the exception that ended the training script
    wandb_ok,          \* the tracking service answers wandb.init
    ckpt_file,         \* ./models/<model_id>.pth: "absent" or its content
    model_state,       \* the training model's state dict
    opt_state,         \* the optimizer's state dict
    start_epoch,
    wandb_config,
    fit_calls,         \* the calls of fit, in order, with their arguments
    train_len,         \* number of images of the train split
    test_len,          \* number of images of the test split
    epoch,             \* fit's epoch counter
    triplet            \* the triplets last fed to training, per split

evars ==
    <<pc, err, cuda, ckpt_exists, out_size, weights, loaded, loader, data,
      image_embeddings, text_embeddings, k_off, bi, I, map_num, map_den,
      random_samples, di, shown>>

tvars ==
    <<tpc, terr, wandb_ok, ckpt_file, model_state, opt_state, start_epoch,
      wandb_config, fit_calls, train_len, test_len, epoch, triplet>>

vars == <<evars, tvars>>

\* ----------------------------------------------------- input domains

\* The values of out_size extract_embeddings is called with: the method
\* selection's, the parameter's default, and the arrays' own width.
OutSizes == {DefaultOutSize, ArrayWidth, MainOutSize}

\* The values of the method selection's out_size: the one the source sets
\* (4096) and the one that matches the arrays' width.
MainOutSizes == {MainOutSize, ArrayWidth}

\* Parameter settings of the two encoder heads (freshly initialised or
\* read from a checkpoint).
Weights == [sign : {0 - 1, 0, 1}, shift : {0, 1}]

\* Sizes of the pickled test dataset (test_dataset.length_dataset).
DatasetLens == {0, NumSamples - 1, NumSamples, NumSamples + 1}

\* One annotation entry of test.json.
Entry(i, fname, ns) ==
    [filename |-> fname, sentences |-> [c \in 1 .. ns |-> [raw |-> <<i, c>>]]]

RegularAnn(L) == [p \in 1 .. L |-> Entry(p - 1, p - 1, CaptionsPerImage)]

\* A regular file whose entry at position p repeats another entry's filename
\* ("dup") or has 4 or 6 sentences.
IrregularAnn(L, p, kind) ==
    [q \in 1 .. L |->
        IF q - 1 # p THEN Entry(q - 1, q - 1, CaptionsPerImage)
        ELSE IF kind = "dup" THEN Entry(p, (p + 1) % L, CaptionsPerImage)
        ELSE IF kind = "short" THEN Entry(p, p, CaptionsPerImage - 1)
        ELSE Entry(p, p, CaptionsPerImage + 1)]

\* Lengths of test.json, shorter and longer than num_samples.
AnnLens == {0, NumSamples - 2, NumSamples - 1, NumSamples, NumSamples + 1}

AnnFiles ==
    {RegularAnn(L) : L \in AnnLens}
    \cup {IrregularAnn(NumSamples, p, kind) :
            p \in {0, NumSamples - 3}, kind \in {"dup", "short", "long"}}
    \cup {IrregularAnn(NumSamples - 1, 0, kind) : kind \in {"dup", "short", "long"}}

\* Dataloaders handed to extract_embeddings when it is checked on its own.
Loaders == UNION {[1 .. n -> 1 .. MaxBatchSize] : n \in 0 .. MaxBatches}

\* ------------------------------------------------- the encoder heads

\* The embedding of image j: one direction per image (mod Dim).
ImEmb(w, j) == [d \in Dims |-> IF d = j % Dim THEN 1 ELSE 0]

\* The embedding of caption c of image j.
TextEmb(w, j, c) == [d \in Dims |-> IF d = (j + w.shift * c) % Dim THEN w.sign ELSE 0]

\* model.get_embedding_pair(images, text_batch) for the images ids (a
\* sequence of dataset positions): len(ids) image rows and 5*len(ids) text
\* rows in image order, each of the width the heads were built with.
GetEmbeddingPair(w, ids, width) ==
    [width |-> width,
     im    |-> [x \in 1 .. Len(ids) |-> ImEmb(w, ids[x])],
     text  |-> [y \in 1 .. (Len(ids) * CaptionsPerImage) |->
                   TextEmb(w, ids[((y - 1) \div CaptionsPerImage) + 1],
                           (y - 1) % CaptionsPerImage)]]

\* ------------------------------------------------ extract_embeddings

\* The width both arrays are allocated with.
EmbeddingArrayWidth(out) == ArrayWidth

\* First row the text block of a batch is written to, given k.
TextRowOffset(k) == k

\* numpy's arr[k:stop] = src for a block src of the given width: the slice
\* is clipped to the array, a one-row block is repeated over the slice, and
\* any other shape mismatch raises ValueError (ok = FALSE, arr unchanged).
\* (A block of width 1 would be repeated over the columns as well; no head
\* is built with out_size = 1.)
AssignRows(arr, k, stop, src, width) ==
    LET lo == Min(k, arr.rows)
        hi == IF Min(stop, arr.rows) < lo THEN lo ELSE Min(stop, arr.rows)
        t  == hi - lo
    IN  IF width # arr.width \/ ~(Len(src) = t \/ Len(src) = 1)
        THEN [ok |-> FALSE, arr |-> arr]
        ELSE [ok  |-> TRUE,
              arr |-> [arr EXCEPT !.data =
                        [r \in DOMAIN arr.data |->
                            IF lo <= r /\ r < hi
                            THEN src[IF Len(src) = 1 THEN 1 ELSE r - lo + 1]
                            ELSE arr.data[r]]]]

\* Dataset positions of the images of batch b (shuffle=False), after
\* images[:num_samples].
BatchIds(ld, b) ==
    LET start == SumSeq(SubSeq(ld, 1, b - 1))
        n     == Min(ld[b], NumSamples)
    IN  [x \in 1 .. n |-> start + x - 1]

\* model.to('cuda'), model.eval() and the two np.zeros.
ExtractBegin ==
    /\ pc = "extract_begin"
    /\ IF ~cuda
       THEN /\ pc' = "error"
            /\ err' = "RuntimeError: no CUDA device"
            /\ UNCHANGED <<image_embeddings, text_embeddings, k_off, bi>>
       ELSE /\ image_embeddings' = Zeros(NumSamples, EmbeddingArrayWidth(out_size))
            /\ text_embeddings' =
                   Zeros(NumSamples * CaptionsPerImage, EmbeddingArrayWidth(out_size))
            /\ k_off' = 0
            /\ bi' = 0
            /\ pc' = "extract_loop"
            /\ UNCHANGED err
    /\ UNCHANGED <<cuda, ckpt_exists, out_size, weights, loaded, loader, data, I,
                   map_num, map_den, random_samples, di, shown, tvars>>

\* One iteration of "for images, texts in dataloader".
ExtractBatch ==
    /\ pc = "extract_loop"
    /\ bi < Len(loader)
    /\ LET ids  == BatchIds(loader, bi + 1)
           n    == Len(ids)
           out  == GetEmbeddingPair(weights, ids, out_size)
           imgs == AssignRows(image_embeddings, k_off, k_off + n, out.im, out.width)
           txts == AssignRows(text_embeddings, TextRowOffset(k_off),
                              TextRowOffset(k_off) + n * CaptionsPerImage,
                              out.text, out.width)
       IN  IF ~imgs.ok
           THEN /\ pc' = "error"
                /\ err' = "ValueError: could not broadcast (image_embeddings)"
                /\ UNCHANGED <<image_embeddings, text_embeddings, k_off, bi>>
           ELSE IF ~txts.ok
           THEN /\ pc' = "error"
                /\ err' = "ValueError: could not broadcast (text_embeddings)"
                /\ image_embeddings' = imgs.arr
                /\ UNCHANGED <<text_embeddings, k_off, bi>>
           ELSE /\ image_embeddings' = imgs.arr
                /\ text_embeddings' = txts.arr
                /\ k_off' = k_off + n
                /\ bi' = bi + 1
                /\ UNCHANGED <<pc, err>>
    /\ UNCHANGED <<cuda, ckpt_exists, out_size, weights, loaded, loader, data, I,
                   map_num, map_den, random_samples, di, shown, tvars>>

\* return image_embeddings, text_embeddings
ExtractReturn ==
    /\ pc = "extract_loop"
    /\ bi = Len(loader)
    /\ pc' = "search"
    /\ UNCHANGED <<err, cuda, ckpt_exists, out_size, weights, loaded, loader, data,
                   image_embeddings, text_embeddings, k_off, bi, I, map_num,
                   map_den, random_samples, di, shown, tvars>>

\* ------------------------------------------------------------- main

\* A load attempted whether or not the file exists.
ShouldLoadAlways(exists) == TRUE

\* The test `if path.exists(PATH_MODEL + model_id + '.pth')`.
ShouldLoad(exists) == exists

\* gt as Python builds it: the keys in first-insertion order ...
RECURSIVE GTKeys(_)
GTKeys(d) ==
    IF d = <<>> THEN <<>>
    ELSE LET front == GTKeys(SubSeq(d, 1, Len(d) - 1))
             f     == d[Len(d)].filename
         IN  IF \E x \in 1 .. Len(front) : front[x] = f THEN front ELSE Append(front, f)

\* ... and gt[f]: the raw sentences of the last entry with filename f.
GTVal(d, f) ==
    LET last == CHOOSE x \in 1 .. Len(d) :
                    /\ d[x].filename = f
                    /\ \A y \in (x + 1) .. Len(d) : d[y].filename # f
    IN  [c \in 1 .. Len(d[last].sentences) |-> d[last].sentences[c].raw]

\* dict_sentences: the raw sentences of all entries in order; its key
\* count is the 0-based position.
RECURSIVE DictSentences(_)
DictSentences(d) ==
    IF d = <<>> THEN <<>>
    ELSE DictSentences(SubSeq(d, 1, Len(d) - 1))
         \o [c \in 1 .. Len(d[Len(d)].sentences) |-> d[Len(d)].sentences[c].raw]

\* Labels counted from 0.
ImageLabelsFromZero(d) == [x \in 1 .. Len(d) |-> x - 1]

\* image_labels = [i for i in range(1, len(data) + 1)]
ImageLabels(d) == [x \in 1 .. Len(d) |-> x]

\* The two loops of the comprehension exchanged.
TextLabelsInterleaved(d) ==
    [x \in 1 .. (Len(d) * CaptionsPerImage) |-> ((x - 1) % Len(d)) + 1]

\* text_labels = [j for j in range(1, len(data) + 1) for i in range(5)]
TextLabels(d) ==
    [x \in 1 .. (Len(d) * CaptionsPerImage) |-> ((x - 1) \div CaptionsPerImage) + 1]

\* Lines 51-77: the dataset, its one-batch dataloader and the model.
Setup ==
    /\ pc = "start"
    /\ \E m \in DatasetLens, o \in MainOutSizes, w \in Weights :
        /\ out_size' = o
        /\ weights' = w
        /\ IF m <= 0
           THEN /\ pc' = "error"
                /\ err' = "ValueError: batch_size should be a positive integer"
                /\ UNCHANGED loader
           ELSE /\ loader' = <<m>>
                /\ pc' = "checkpoint"
                /\ UNCHANGED err
    /\ UNCHANGED <<cuda, ckpt_exists, loaded, data, image_embeddings,
                   text_embeddings, k_off, bi, I, map_num, map_den,
                   random_samples, di, shown, tvars>>

\* Lines 79-83: torch.load and model.load_state_dict, when the test says so.
LoadCheckpoint ==
    /\ pc = "checkpoint"
    /\ IF ShouldLoad(ckpt_exists)
       THEN IF ckpt_exists
            THEN /\ \E w \in Weights : weights' = w
                 /\ loaded' = TRUE
                 /\ pc' = "annotations"
                 /\ UNCHANGED err
            ELSE /\ pc' = "error"
                 /\ err' = "FileNotFoundError: checkpoint"
                 /\ UNCHANGED <<weights, loaded>>
       ELSE /\ pc' = "annotations"
            /\ UNCHANGED <<err, weights, loaded>>
    /\ UNCHANGED <<cuda, ckpt_exists, out_size, loader, data, image_embeddings,
                   text_embeddings, k_off, bi, I, map_num, map_den,
                   random_samples, di, shown, tvars>>

\* Lines 85-99: test.json is read and cut to num_samples entries; gt and
\* dict_sentences are functions of data (GTKeys, GTVal, DictSentences).
LoadAnnotations ==
    /\ pc = "annotations"
    /\ \/ \E ann \in AnnFiles :
            /\ data' = PyPrefix(ann, NumSamples)
            /\ pc' = "extract_begin"
            /\ UNCHANGED err
       \/ /\ pc' = "error"
          /\ err' = "FileNotFoundError: test.json"
          /\ UNCHANGED data
    /\ UNCHANGED <<cuda, ckpt_exists, out_size, weights, loaded, loader,
                   image_embeddings, text_embeddings, k_off, bi, I, map_num,
                   map_den, random_samples, di, shown, tvars>>

\* ---------------------------------------------- nearest neighbours

RECURSIVE SqDistFrom(_, _, _)
SqDistFrom(x, y, d) ==
    IF d >= Dim THEN 0
    ELSE (x[d] - y[d]) * (x[d] - y[d]) + SqDistFrom(x, y, d + 1)

\* The squared L2 distance IndexFlatL2 ranks by.
SqDist(x, y) == SqDistFrom(x, y, 0)

\* The order in which the flat index reports equidistant rows is not
\* specified: both index orders are explored.
TieOrders == {"low", "high"}

Closer(dist, i, j, tie) ==
    \/ dist[i] < dist[j]
    \/ /\ dist[i] = dist[j]
       /\ IF tie = "low" THEN i < j ELSE i > j

\* The n nearest of the candidate rows in order of the distances dist,
\* padded with -1 when the index holds fewer rows.
RECURSIVE SelectNearest(_, _, _, _)
SelectNearest(dist, cands, n, tie) ==
    IF n = 0 THEN <<>>
    ELSE IF cands = {} THEN <<0 - 1>> \o SelectNearest(dist, {}, n - 1, tie)
    ELSE LET b == CHOOSE i \in cands : \A j \in cands \ {i} : Closer(dist, i, j, tie)
         IN  <<b>> \o SelectNearest(dist, cands \ {b}, n - 1, tie)

\* The index built over the text embeddings.
IndexedArrayText(img, txt) == Float32Array(txt)

\* The array index.add receives: the image embeddings.
IndexedArray(img, txt) == Float32Array(img)

\* The array index.search receives: the text embeddings.
QueryArray(img, txt) == Float32Array(txt)

\* D, I = index.search(queries, k), I only: per query row (0-based) the k
\* row ids at ranks 1..k.
IndexSearch(idx, queries, k, tie) ==
    [s \in 0 .. (queries.rows - 1) |->
        LET dist == [i \in 0 .. (idx.rows - 1) |-> SqDist(queries.data[s], idx.data[i])]
        IN  SelectNearest(dist, 0 .. (idx.rows - 1), k, tie)]

\* Lines 109-118.
Search ==
    /\ pc = "search"
    /\ LET idx     == IndexedArray(image_embeddings, text_embeddings)
           queries == QueryArray(image_embeddings, text_embeddings)
       IN  IF queries.width # idx.width
           THEN /\ pc' = "error"
                /\ err' = "AssertionError: query dimension"
                /\ UNCHANGED I
           ELSE /\ \E tie \in TieOrders : I' = IndexSearch(idx, queries, K, tie)
                /\ pc' = "score"
                /\ UNCHANGED err
    /\ UNCHANGED <<cuda, ckpt_exists, out_size, weights, loaded, loader, data,
                   image_embeddings, text_embeddings, k_off, bi, map_num, map_den,
                   random_samples, di, shown, tvars>>

\* ------------------------------------------------------------ mAP@k

\* The common denominator of 1/1 .. 1/K.
Scale == 3 * 4 * 5

\* apk(actual, predicted, k) * Scale: each first occurrence of a relevant
\* item at rank r adds hits/r; the sum is divided by min(len(actual), k).
RECURSIVE ApkFrom(_, _, _, _, _)
ApkFrom(actual, predicted, k, r, hits) ==
    IF r > Min(Len(predicted), k) THEN 0
    ELSE IF /\ \E a \in 1 .. Len(actual) : actual[a] = predicted[r]
            /\ \A e \in 1 .. (r - 1) : predicted[e] # predicted[r]
         THEN ((hits + 1) * Scale) \div r + ApkFrom(actual, predicted, k, r + 1, hits + 1)
         ELSE ApkFrom(actual, predicted, k, r + 1, hits)

Apk(actual, predicted, k) ==
    IF actual = <<>> THEN 0
    ELSE ApkFrom(actual, predicted, k, 1, 0) \div Min(Len(actual), k)

\* mapk(actual, predicted, k): the mean of apk over zip(actual, predicted),
\* as the pair (sum of apk * Scale, number of pairs).
RECURSIVE ApkSum(_, _, _, _)
ApkSum(actual, predicted, k, n) ==
    IF n = 0 THEN 0
    ELSE Apk(actual[n], predicted[n], k) + ApkSum(actual, predicted, k, n - 1)

Mapk(actual, predicted, k) ==
    LET n == Min(Len(actual), Len(predicted))
    IN  [num |-> ApkSum(actual, predicted, k, n), den |-> n]

\* image_labels_pred: the label of every retrieved row, one list per row
\* of I (as a sequence: list s is at position s + 1).
ImageLabelsPred(res, labels) ==
    [x \in 1 .. Cardinality(DOMAIN res) |->
        [r \in 1 .. Len(res[x - 1]) |-> PyAt(labels, res[x - 1][r])]]

\* Lines 125-136.
Score ==
    /\ pc = "score"
    /\ LET labels == ImageLabels(data)
       IN  IF \E s \in DOMAIN I : \E r \in 1 .. Len(I[s]) : ~PyIndexOK(I[s][r], Len(labels))
           THEN /\ pc' = "error"
                /\ err' = "IndexError: image_labels"
                /\ UNCHANGED <<map_num, map_den>>
           ELSE LET tl  == TextLabels(data)
                    t_labels == [x \in 1 .. Len(tl) |-> <<tl[x]>>]
                    m   == Mapk(t_labels, ImageLabelsPred(I, labels), K)
                IN  /\ map_num' = m.num
                    /\ map_den' = m.den
                    /\ pc' = "sample"
                    /\ UNCHANGED err
    /\ UNCHANGED <<cuda, ckpt_exists, out_size, weights, loaded, loader, data,
                   image_embeddings, text_embeddings, k_off, bi, I,
                   random_samples, di, shown, tvars>>

\* ------------------------------------------------- qualitative display

RECURSIVE Gcd(_, _)
Gcd(a, b) == IF b = 0 THEN a ELSE Gcd(b, a % b)

\* Generators (start, stride) of the permutations explored for
\* np.random.choice.
Seeds == {<<0, 1>>, <<2, 3>>, <<0, 7>>, <<2, 11>>}

\* np.random.choice(range(n), size, replace=False): the first size items
\* of a permutation of 0..n-1 (here x -> start + stride * x mod n).
RandomChoice(n, size, start, stride) ==
    [x \in 1 .. size |-> (start + stride * (x - 1)) % n]

\* Line 141.
Sample ==
    /\ pc = "sample"
    /\ LET n == Len(data) * CaptionsPerImage
       IN  IF DisplaySamples > n
           THEN /\ pc' = "error"
                /\ err' = "ValueError: larger sample than population"
                /\ UNCHANGED random_samples
           ELSE /\ \E seed \in Seeds :
                    /\ Gcd(n, seed[2]) = 1
                    /\ random_samples' = RandomChoice(n, DisplaySamples, seed[1], seed[2])
                /\ pc' = "display"
                /\ UNCHANGED err
    /\ UNCHANGED <<cuda, ckpt_exists, out_size, weights, loaded, loader, data,
                   image_embeddings, text_embeddings, k_off, bi, I, map_num,
                   map_den, di, shown, tvars>>

\* The exception one iteration of the display loop raises for a sample, or
\* "none": dict_sentences[sample], list(gt)[gt_image_id - 1], list(gt)[pred].
ShowError(d, res, sample) ==
    IF sample >= Len(DictSentences(d))
    THEN "KeyError: dict_sentences"
    ELSE IF ~PyIndexOK(PyAt(TextLabels(d), sample) - 1, Len(GTKeys(d)))
    THEN "IndexError: list(gt)[gt_image_id - 1]"
    ELSE IF \E r \in 1 .. Len(res[sample]) : ~PyIndexOK(res[sample][r], Len(GTKeys(d)))
    THEN "IndexError: list(gt)[pred]"
    ELSE "none"

\* What the iteration prints and plots: the query text, the ground-truth
\* image's filename and the filenames of the retrieved rows.
ShowOne(d, res, sample) ==
    [sample  |-> sample,
     query   |-> DictSentences(d)[sample + 1],
     gt_file |-> PyAt(GTKeys(d), PyAt(TextLabels(d), sample) - 1),
     files   |-> [r \in 1 .. Len(res[sample]) |-> PyAt(GTKeys(d), res[sample][r])]]

\* Lines 144-168: the loop "for sample in random_samples", up to its end or
\* to the first exception; shown collects what each iteration showed.
Display ==
    /\ pc = "display"
    /\ LET bad == {x \in 1 .. Len(random_samples) :
                      ShowError(data, I, random_samples[x]) # "none"}
           n   == IF bad = {} THEN Len(random_samples)
                  ELSE (CHOOSE x \in bad : \A y \in bad : x <= y) - 1
       IN  /\ shown' = [x \in 1 .. n |-> ShowOne(data, I, random_samples[x])]
           /\ di' = n
           /\ IF bad = {}
              THEN /\ pc' = "done"
                   /\ UNCHANGED err
              ELSE /\ pc' = "error"
                   /\ err' = ShowError(data, I, random_samples[n + 1])
    /\ UNCHANGED <<cuda, ckpt_exists, out_size, weights, loaded, loader, data,
                   image_embeddings, text_embeddings, k_off, bi, I, map_num,
                   map_den, random_samples, tvars>>

\* ------------------------------------------------ training script

\* The hyperparameters wandb.config is set to (lines 103-110).
HyperParams ==
    [learning_rate    |-> "3e-4",
     batch_size       |-> TrainBatchSize,
     text_aggregation |-> "BERT",
     image_features   |-> "Resnet",
     out_size         |-> TrainOutSize,
     model_id         |-> "TextToImage_Resnet_BERT_textagg_out_size_1000"]

\* Epoch counters a checkpoint file may hold.
CkptEpochs == {0, 1, NEpochs - 1, NEpochs}

\* What ./models/<model_id>.pth may be: absent, a checkpoint with its three
\* keys, or a file written without the 'optimizer' or the 'epoch' key.
CkptFiles ==
    {[present |-> FALSE]}
    \cup {[present |-> TRUE, id |-> c, keys |-> ks, model_state_dict |-> c,
           optimizer |-> 10 + c, epoch |-> e] :
            c \in {1, 2}, e \in CkptEpochs,
            ks \in {{"model_state_dict", "optimizer", "epoch"}}}
    \cup {[present |-> TRUE, id |-> 1, keys |-> ks, model_state_dict |-> 1,
           optimizer |-> 11, epoch |-> 1] :
            ks \in {{"model_state_dict", "epoch"}, {"model_state_dict", "optimizer"}}}

\* The test `if path.exists(OUTPUT_MODEL_DIR + model_id + '.pth')`.
ShouldRestore(f) == f.present

\* The epoch counter left at its initial value.
RestoredEpochZero(f) == 0

\* start_epoch = checkpoint['epoch']
RestoredEpoch(f) == f.epoch

\* Line 23, at import: wandb.init raises when the tracking service fails.
WandbInit ==
    /\ tpc = "import"
    /\ IF wandb_ok
       THEN /\ tpc' = "main"
            /\ UNCHANGED terr
       ELSE /\ tpc' = "error"
            /\ terr' = "wandb.init: tracking service failure"
    /\ UNCHANGED <<evars, wandb_ok, ckpt_file, model_state, opt_state, start_epoch,
                   wandb_config, fit_calls, train_len, test_len, epoch, triplet>>

\* Lines 26-89: the datasets, their triplet datasets, the dataloaders, the
\* freshly initialised model (state 0) and optimizer (state 0).
Build ==
    /\ tpc = "main"
    /\ \E n \in 0 .. MaxTripletLen, m \in 0 .. MaxTripletLen :
        /\ train_len' = n
        /\ test_len' = m
    /\ model_state' = 0
    /\ opt_state' = 0
    /\ start_epoch' = 0
    /\ tpc' = "restore"
    /\ UNCHANGED <<evars, terr, wandb_ok, ckpt_file, wandb_config, fit_calls,
                   epoch, triplet>>

\* Lines 90-96: the three loads, in order; a missing key raises KeyError
\* after the loads before it.
Restore ==
    /\ tpc = "restore"
    /\ IF ~ShouldRestore(ckpt_file)
       THEN /\ tpc' = "config"
            /\ UNCHANGED <<terr, model_state, opt_state, start_epoch>>
       ELSE IF ~ckpt_file.present
       THEN /\ tpc' = "error"
            /\ terr' = "FileNotFoundError: checkpoint"
            /\ UNCHANGED <<model_state, opt_state, start_epoch>>
       ELSE IF "model_state_dict" \notin ckpt_file.keys
       THEN /\ tpc' = "error"
            /\ terr' = "KeyError: model_state_dict"
            /\ UNCHANGED <<model_state, opt_state, start_epoch>>
       ELSE IF "optimizer" \notin ckpt_file.keys
       THEN /\ tpc' = "error"
            /\ terr' = "KeyError: optimizer"
            /\ model_state' = ckpt_file.model_state_dict
            /\ UNCHANGED <<opt_state, start_epoch>>
       ELSE IF "epoch" \notin ckpt_file.keys
       THEN /\ tpc' = "error"
            /\ terr' = "KeyError: epoch"
            /\ model_state' = ckpt_file.model_state_dict
            /\ opt_state' = ckpt_file.optimizer
            /\ UNCHANGED start_epoch
       ELSE /\ model_state' = ckpt_file.model_state_dict
            /\ opt_state' = ckpt_file.optimizer
            /\ start_epoch' = RestoredEpoch(ckpt_file)
            /\ tpc' = "config"
            /\ UNCHANGED terr
    /\ UNCHANGED <<evars, wandb_ok, ckpt_file, wandb_config, fit_calls, train_len,
                   test_len, epoch, triplet>>

\* Lines 98-110: wandb.config is assigned.
SetConfig ==
    /\ tpc = "config"
    /\ wandb_config' = HyperParams
    /\ tpc' = "call_fit"
    /\ UNCHANGED <<evars, terr, wandb_ok, ckpt_file, model_state, opt_state,
                   start_epoch, fit_calls, train_len, test_len, epoch, triplet>>

\* Lines 112-113.
CallFit ==
    /\ tpc = "call_fit"
    /\ fit_calls' = Append(fit_calls,
                           [model |-> model_state, optimizer |-> opt_state,
                            n_epochs |-> NEpochs, cuda |-> cuda,
                            start_epoch |-> start_epoch,
                            config |-> wandb_config])
    /\ epoch' = start_epoch
    /\ tpc' = "fit_train"
    /\ UNCHANGED <<evars, terr, wandb_ok, ckpt_file, model_state, opt_state,
                   start_epoch, wandb_config, train_len, test_len, triplet>>

\* The negative drawn from all images, the anchor's own included.
TripletNegativesAny(n, idx) == 0 .. (n - 1)

\* The triplets item idx of a triplet dataset over n images may return: the
\* anchor is a caption of image idx, the positive is image idx and the
\* negative is any other image.
TripletNegatives(n, idx) == (0 .. (n - 1)) \ {idx}

Triplets(n, split) ==
    UNION {{[split    |-> split,
             anchor   |-> [label |-> idx, caption |-> c],
             positive |-> [label |-> idx],
             negative |-> [label |-> neg]] :
                c \in {0, CaptionsPerImage - 1}, neg \in TripletNegatives(n, idx)} :
           idx \in 0 .. (n - 1)}

\* One pass of fit over a split's triplet dataloader: nothing for an empty
\* split, an error when no other image can serve as the negative, else a
\* triplet is fed to the model.
FeedTriplet(n, split, nextpc) ==
    IF n = 0
    THEN /\ tpc' = nextpc
         /\ UNCHANGED <<terr, triplet, model_state, opt_state>>
    ELSE IF Triplets(n, split) = {}
    THEN /\ tpc' = "error"
         /\ terr' = "ValueError: no negative sample"
         /\ UNCHANGED <<triplet, model_state, opt_state>>
    ELSE /\ \E t \in Triplets(n, split) : triplet' = <<t>>
         /\ tpc' = nextpc
         /\ IF split = "train"
            THEN model_state' = 9 /\ opt_state' = 19
            ELSE UNCHANGED <<model_state, opt_state>>
         /\ UNCHANGED terr

FitTrain ==
    /\ tpc = "fit_train"
    /\ epoch < NEpochs
    /\ FeedTriplet(train_len, "train", "fit_test")
    /\ UNCHANGED <<evars, wandb_ok, ckpt_file, start_epoch, wandb_config, fit_calls,
                   train_len, test_len, epoch>>

FitTest ==
    /\ tpc = "fit_test"
    /\ FeedTriplet(test_len, "test", "fit_save")
    /\ UNCHANGED <<evars, wandb_ok, ckpt_file, start_epoch, wandb_config, fit_calls,
                   train_len, test_len, epoch>>

\* The end of an epoch: the checkpoint is written.
FitSave ==
    /\ tpc = "fit_save"
    /\ epoch' = epoch + 1
    /\ ckpt_file' = [present |-> TRUE, id |-> 3,
                     keys |-> {"model_state_dict", "optimizer", "epoch"},
                     model_state_dict |-> model_state, optimizer |-> opt_state,
                     epoch |-> epoch + 1]
    /\ tpc' = "fit_train"
    /\ UNCHANGED <<evars, terr, wandb_ok, model_state, opt_state, start_epoch,
                   wandb_config, fit_calls, train_len, test_len, triplet>>

FitReturn ==
    /\ tpc = "fit_train"
    /\ epoch >= NEpochs
    /\ tpc' = "done"
    /\ UNCHANGED <<evars, terr, wandb_ok, ckpt_file, model_state, opt_state,
                   start_epoch, wandb_config, fit_calls, train_len, test_len,
                   epoch, triplet>>

\* ------------------------------------------------- specifications

NoArray == Zeros(0, 0)

NoWeights == [sign |-> 0, shift |-> 0]

TrainIdle ==
    /\ tpc = "idle"
    /\ terr = "none"
    /\ wandb_ok = TRUE
    /\ ckpt_file = [present |-> FALSE]
    /\ model_state = 0
    /\ opt_state = 0
    /\ start_epoch = 0
    /\ wandb_config = <<>>
    /\ fit_calls = <<>>
    /\ train_len = 0
    /\ test_len = 0
    /\ epoch = 0
    /\ triplet = <<>>

EvalBlank ==
    /\ err = "none"
    /\ loaded = FALSE
    /\ data = <<>>
    /\ image_embeddings = NoArray
    /\ text_embeddings = NoArray
    /\ k_off = 0
    /\ bi = 0
    /\ I = <<>>
    /\ map_num = 0
    /\ map_den = 0
    /\ random_samples = <<>>
    /\ di = 0
    /\ shown = <<>>

\* The evaluation script, from the start of main.
Init ==
    /\ pc = "start"
    /\ cuda \in BOOLEAN
    /\ ckpt_exists \in BOOLEAN
    /\ out_size = 0
    /\ weights = NoWeights
    /\ loader = <<>>
    /\ EvalBlank
    /\ TrainIdle

Next ==
    \/ Setup
    \/ LoadCheckpoint
    \/ LoadAnnotations
    \/ ExtractBegin
    \/ ExtractBatch
    \/ ExtractReturn
    \/ Search
    \/ Score
    \/ Sample
    \/ Display

Spec == Init /\ [][Next]_vars

\* extract_embeddings on its own, called with any dataloader.
InitExtract ==
    /\ pc = "extract_begin"
    /\ cuda \in BOOLEAN
    /\ ckpt_exists = FALSE
    /\ out_size \in OutSizes
    /\ weights \in Weights
    /\ loader \in Loaders
    /\ EvalBlank
    /\ TrainIdle

NextExtract ==
    \/ ExtractBegin
    \/ ExtractBatch
    \/ ExtractReturn

SpecExtract == InitExtract /\ [][NextExtract]_vars

\* The training script, from its import.
InitTrain ==
    /\ pc = "idle"
    /\ cuda \in BOOLEAN
    /\ ckpt_exists = FALSE
    /\ out_size = 0
    /\ weights = NoWeights
    /\ loader = <<>>
    /\ EvalBlank
    /\ tpc = "import"
    /\ terr = "none"
    /\ wandb_ok \in BOOLEAN
    /\ ckpt_file \in CkptFiles
    /\ model_state = 0
    /\ opt_state = 0
    /\ start_epoch = 0
    /\ wandb_config = <<>>
    /\ fit_calls = <<>>
    /\ train_len = 0
    /\ test_len = 0
    /\ epoch = 0
    /\ triplet = <<>>

NextTrain ==
    \/ WandbInit
    \/ Build
    \/ Restore
    \/ SetConfig
    \/ CallFit
    \/ FitTrain
    \/ FitTest
    \/ FitSave
    \/ FitReturn

SpecTrain == InitTrain /\ [][NextTrain]_vars

\* ------------------------------------------------------------ claims

SearchDone == DOMAIN I # {}

ImageRow(i) == [d \in Dims |-> Float32(image_embeddings.data[i][d])]

QueryRow(s) == [d \in Dims |-> Float32(text_embeddings.data[s][d])]

ArraysAllocated == image_embeddings.rows > 0

\* C2: the arrays extract_embeddings returns have rows of width out_size,
\* the width the encoder heads are built with, the image array and the
\* text array alike.
C2_ArrayWidthIsOutSize ==
    ArraysAllocated =>
        /\ image_embeddings.width = out_size
        /\ text_embeddings.width = out_size

PastCheckpoint == pc \notin {"start", "checkpoint", "idle"} /\ loader # <<>>

ScoredQueries == 0 .. (map_den - 1)

OwnImage(s) == s \div CaptionsPerImage

DisplayRight ==
    /\ Len(random_samples) = DisplaySamples
    /\ \A x, y \in 1 .. Len(random_samples) :
        x # y => random_samples[x] # random_samples[y]
    /\ \A x \in 1 .. Len(random_samples) :
        random_samples[x] >= 0 /\ random_samples[x] < CaptionsPerImage * Len(data)
    /\ \A x \in 1 .. Len(shown) :
        /\ shown[x].sample = random_samples[x]
        /\ shown[x].query = DictSentences(data)[shown[x].sample + 1]
        /\ shown[x].gt_file
               = PyAt(GTKeys(data), PyAt(TextLabels(data), shown[x].sample) - 1)
        /\ \E c \in 1 .. Len(GTVal(data, shown[x].gt_file)) :
            GTVal(data, shown[x].gt_file)[c] = shown[x].query
        /\ Len(shown[x].files) = K
        /\ \A r \in 1 .. K :
            shown[x].files[r] = data[I[shown[x].sample][r] + 1].filename

\* Every entry has exactly 5 sentences and no two entries share a filename.
RegularData ==
    /\ \A x \in 1 .. Len(data) : Len(data[x].sentences) = CaptionsPerImage
    /\ \A x, y \in 1 .. Len(data) : x # y => data[x].filename # data[y].filename

C8_RowsFollowImageOrder ==
    (pc = "search" /\ Len(loader) >= 1 /\ SumSeq(loader) <= NumSamples) =>
        /\ image_embeddings.rows = NumSamples
        /\ text_embeddings.rows = NumSamples * CaptionsPerImage
        /\ \A j \in 0 .. (SumSeq(loader) - 1) :
            /\ image_embeddings.data[j] = ImEmb(weights, j)
            /\ \A c \in 0 .. (CaptionsPerImage - 1) :
                text_embeddings.data[CaptionsPerImage * j + c] = TextEmb(weights, j, c)

FitStarted == tpc \in {"fit_train", "fit_test", "fit_save", "done"}

\* C5: fit is called exactly once, after the restoration, with n_epochs =
\* 20 and start_epoch; model state, optimizer state and epoch counter are
\* those of the checkpoint file when it exists (all three), and the fresh
\* ones with start_epoch = 0 when it does not.
C5_RestoreThenFitOnce ==
    /\ Len(fit_calls) <= 1
    /\ FitStarted => Len(fit_calls) = 1
    /\ tpc \in {"import", "main", "restore", "config", "call_fit"} => fit_calls = <<>>
    /\ fit_calls # <<>> =>
        /\ fit_calls[1].n_epochs = 20
        /\ fit_calls[1].start_epoch = start_epoch
    /\ (tpc \in {"config", "call_fit"} \/ (fit_calls # <<>> /\ epoch = start_epoch
                                            /\ tpc = "fit_train")) =>
        LET m == IF fit_calls = <<>> THEN model_state ELSE fit_calls[1].model
            o == IF fit_calls = <<>> THEN opt_state ELSE fit_calls[1].optimizer
        IN  IF ckpt_file.present
            THEN /\ m = ckpt_file.model_state_dict
                 /\ o = ckpt_file.optimizer
                 /\ start_epoch = ckpt_file.epoch
            ELSE /\ m = 0
                 /\ o = 0
                 /\ start_epoch = 0

\* fit was just called after a restoration from a checkpoint of a later
\* epoch.
C5_Witness ==
    /\ tpc = "fit_train"
    /\ Len(fit_calls) = 1
    /\ epoch = start_epoch
    /\ ckpt_file.present
    /\ fit_calls[1].start_epoch > 0
    /\ fit_calls[1].model = ckpt_file.model_state_dict

C7_TrackingNeverBlocksFit ==
    /\ ~(tpc = "error" /\ terr = "wandb.init: tracking service failure"
             /\ fit_calls = <<>>)
    /\ fit_calls # <<>> => fit_calls[1].config = HyperParams

====
